---- MODULE Spec2Model ----
(***************************************************************************)
(* Maker.js path kernel: the path variants (line, circle, arc, bezier),    *)
(* the transformation engine (clone, mirror, move, moveRelative,           *)
(* moveTemporary,                                                          *)
(* rotate, scale), the equality engine (areEqual) and the break engine     *)
(* (breakAtPoint).                                                         *)
(*                                                                         *)
(* Path objects live in a heap: heap[i] is the object with reference i,    *)
(* reference 0 is null.  Points are value pairs <<x, y>> on the integer    *)
(* grid and angles are whole degrees, so the tolerances of the point and   *)
(* angle comparisons reduce to exact comparison.  An optional property or  *)
(* argument is a sequence: <<>> when absent, <<v>> when present.           *)
(* Where the identity of the point objects matters, own.of[i] gives for     *)
(* each point property of object i the point object it refers to.          *)
(* The engine modelled is the namespace MakerJs.path that handles all four *)
(* variants (the one moveTemporary belongs to).                            *)
(***************************************************************************)
EXTENDS Integers, Sequences, FiniteSets, TLC

VARIABLES heap, last, steps, mt, own

vars == <<heap, last, steps, mt, own>>

(* ------------------------------ bounds -------------------------------- *)

\* number of engine calls in one run
MaxSteps == 2

(* ------------------------- point arithmetic --------------------------- *)

pointClone(p) == <<p[1], p[2]>>

pointAdd(a, b, subtract) ==
    IF subtract THEN <<a[1] - b[1], a[2] - b[2]>>
                ELSE <<a[1] + b[1], a[2] + b[2]>>

pointSubtract(a, b) == pointAdd(a, b, TRUE)

pointScale(p, scaleValue) == <<p[1] * scaleValue, p[2] * scaleValue>>

pointAreEqual(a, b) == a[1] = b[1] /\ a[2] = b[2]

\* the x and/or the y coordinate negated
pointMirror(p, mirrorX, mirrorY) ==
    <<IF mirrorX THEN -p[1] ELSE p[1], IF mirrorY THEN -p[2] ELSE p[2]>>

\* rotation about a centre by a multiple of 90 degrees
pointRotate(p, angleInDegrees, rotationOrigin) ==
    LET d == pointSubtract(p, rotationOrigin)
        q == angleInDegrees % 360
        r == IF q = 0 THEN d
             ELSE IF q = 90 THEN <<-d[2], d[1]>>
             ELSE IF q = 180 THEN <<-d[1], -d[2]>>
             ELSE <<d[2], -d[1]>>
    IN  pointAdd(rotationOrigin, r, FALSE)

(* ------------------------- angle arithmetic --------------------------- *)

\* angle reduced to [0, 360)
noRevolutions(angleInDegrees) == angleInDegrees % 360

\* end angle of an arc, compensated for a sweep through zero
ofArcEnd(arc) ==
    IF arc.endAngle < arc.startAngle THEN 360 + arc.endAngle ELSE arc.endAngle

\* an angle reflected as a point at that angle is by pointMirror
angleMirror(angleInDegrees, mirrorX, mirrorY) ==
    LET a == IF mirrorY THEN 360 - angleInDegrees ELSE angleInDegrees
    IN  IF mirrorX THEN (IF a < 180 THEN 180 ELSE 540) - a ELSE a

Sign(n) == IF n > 0 THEN 1 ELSE IF n < 0 THEN -1 ELSE 0

\* the points whose polar angle about origin is a whole number of degrees
IsCompass(origin, p) ==
    LET d == pointSubtract(p, origin)
    IN  d[1] = 0 \/ d[2] = 0 \/ d[1] = d[2] \/ d[1] = -d[2]

\* polar angle of a point about an origin, in [0, 360)
ofPointInDegrees(origin, p) ==
    LET d == pointSubtract(p, origin)
        sx == Sign(d[1])
        sy == Sign(d[2])
    IN  IF sy = 0 THEN (IF sx < 0 THEN 180 ELSE 0)
        ELSE IF sx = 0 THEN (IF sy > 0 THEN 90 ELSE 270)
        ELSE IF sx > 0 THEN (IF sy > 0 THEN 45 ELSE 315)
        ELSE (IF sy > 0 THEN 135 ELSE 225)

(* ---------------------------- measurement ----------------------------- *)

isAngleEqual(a, b) == noRevolutions(noRevolutions(b) - noRevolutions(a)) = 0

angleAreEqual(a, b) == isAngleEqual(a, b)

Min(a, b) == IF a < b THEN a ELSE b

Max(a, b) == IF a > b THEN a ELSE b

isBetween(valueInQuestion, limit1, limit2, exclusive) ==
    IF exclusive
    THEN Min(limit1, limit2) < valueInQuestion /\ valueInQuestion < Max(limit1, limit2)
    ELSE Min(limit1, limit2) <= valueInQuestion /\ valueInQuestion <= Max(limit1, limit2)

\* the point is on the line through origin and end
IsCollinear(p, line) ==
    LET u == pointSubtract(line.end, line.origin)
        v == pointSubtract(p, line.origin)
    IN  u[1] * v[2] - u[2] * v[1] = 0

\* the point is on the segment; exclusive leaves out the two end points
isBetweenPoints(pointInQuestion, line, exclusive) ==
    /\ IsCollinear(pointInQuestion, line)
    /\ \A i \in 1..2 :
          \/ line.origin[i] = line.end[i]
          \/ isBetween(pointInQuestion[i], line.origin[i], line.end[i], exclusive)
    /\ (exclusive => ~pointAreEqual(line.origin, line.end))

(* --------------------------- path variants ---------------------------- *)

Line(origin, end) ==
    [type |-> "line", origin |-> origin, end |-> end, layer |-> <<>>]

Circle(origin, radius) ==
    [type |-> "circle", origin |-> origin, radius |-> radius, layer |-> <<>>]

Arc(origin, radius, startAngle, endAngle) ==
    [type |-> "arc", origin |-> origin, radius |-> radius,
     startAngle |-> startAngle, endAngle |-> endAngle, layer |-> <<>>]

\* a curve with one control point
Bezier1(origin, control, end) ==
    [type |-> "bezier", origin |-> origin, control |-> control, end |-> end,
     layer |-> <<>>]

\* a curve with a list of control points
BezierN(origin, controls, end) ==
    [type |-> "bezier", origin |-> origin, controls |-> controls, end |-> end,
     layer |-> <<>>]

\* a curve built from the list of all its points: origin, control points, end;
\* one point between the ends makes the curve with a single control point
BezierFromPoints(points) ==
    IF Len(points) = 3
    THEN Bezier1(points[1], points[2], points[3])
    ELSE BezierN(points[1], SubSeq(points, 2, Len(points) - 1), points[Len(points)])

HasControl(bez) == "control" \in DOMAIN bez

(* ----------------------- transformation engine ------------------------ *)

copyLayer(pathA, pathB) ==
    IF pathA.layer # <<>> THEN [pathB EXCEPT !.layer = pathA.layer] ELSE pathB

cloneGeometry(pathToClone) ==
    CASE pathToClone.type = "arc" ->
            Arc(pointClone(pathToClone.origin), pathToClone.radius,
                pathToClone.startAngle, pathToClone.endAngle)
      [] pathToClone.type = "circle" ->
            Circle(pointClone(pathToClone.origin), pathToClone.radius)
      [] pathToClone.type = "line" ->
            Line(pointClone(pathToClone.origin), pointClone(pathToClone.end))
      [] pathToClone.type = "bezier" ->
            IF HasControl(pathToClone)
            THEN Bezier1(pointClone(pathToClone.origin), pointClone(pathToClone.control),
                         pointClone(pathToClone.end))
            ELSE BezierN(pointClone(pathToClone.origin),
                         [k \in DOMAIN pathToClone.controls |-> pointClone(pathToClone.controls[k])],
                         pointClone(pathToClone.end))

clone(pathToClone) == copyLayer(pathToClone, cloneGeometry(pathToClone))

movePoint(p, oldOrigin, newOrigin) ==
    pointAdd(newOrigin, pointSubtract(p, oldOrigin), FALSE)

moveMapLine(line, origin) ==
    [line EXCEPT !.end = movePoint(line.end, line.origin, origin)]

moveMapBezier(bez, origin) ==
    LET b == moveMapLine(bez, origin)
        F(p) == movePoint(p, b.origin, origin)
    IN  IF HasControl(b)
        THEN [b EXCEPT !.control = F(b.control)]
        ELSE [b EXCEPT !.controls = [k \in DOMAIN b.controls |-> F(b.controls[k])]]

\* move that sets the origin before it moves the other points
move_OriginFirst(pathToMove, origin) ==
    LET o == [pathToMove EXCEPT !.origin = origin]
    IN  CASE o.type = "line" -> moveMapLine(o, origin)
          [] o.type = "bezier" -> moveMapBezier(o, origin)
          [] OTHER -> o

move(pathToMove, origin) ==
    LET moved == CASE pathToMove.type = "line" -> moveMapLine(pathToMove, origin)
                   [] pathToMove.type = "bezier" -> moveMapBezier(pathToMove, origin)
                   [] OTHER -> pathToMove
    IN  [moved EXCEPT !.origin = origin]

\* mutant: the end point is always added to, the subtract flag is dropped
moveRelativeMapLine_NoSubtract(line, delta, subtract) ==
    [line EXCEPT !.end = pointAdd(line.end, delta, FALSE)]

moveRelativeMapLine(line, delta, subtract) ==
    [line EXCEPT !.end = pointAdd(line.end, delta, subtract)]

moveRelativeMapBezier(bez, delta, subtract) ==
    LET b == moveRelativeMapLine(bez, delta, subtract)
        F(p) == pointAdd(p, delta, subtract)
    IN  IF HasControl(b)
        THEN [b EXCEPT !.control = F(b.control)]
        ELSE [b EXCEPT !.controls = [k \in DOMAIN b.controls |-> F(b.controls[k])]]

\* delta is optional: <<>> stands for an absent delta
moveRelative(pathToMove, delta, subtract) ==
    IF delta = <<>> THEN pathToMove
    ELSE LET o == [pathToMove EXCEPT !.origin = pointAdd(pathToMove.origin, delta[1], subtract)]
         IN  CASE o.type = "line" -> moveRelativeMapLine(o, delta[1], subtract)
               [] o.type = "bezier" -> moveRelativeMapBezier(o, delta[1], subtract)
               [] OTHER -> o

rotateMapLine(line, angleInDegrees, rotationOrigin) ==
    [line EXCEPT !.end = pointRotate(line.end, angleInDegrees, rotationOrigin)]

\* the angles of the arc shifted and left as they come out
rotateMapArc_NoRevolutionsKept(arc, angleInDegrees, rotationOrigin) ==
    [arc EXCEPT !.startAngle = arc.startAngle + angleInDegrees,
                !.endAngle = arc.endAngle + angleInDegrees]

rotateMapArc(arc, angleInDegrees, rotationOrigin) ==
    [arc EXCEPT !.startAngle = noRevolutions(arc.startAngle + angleInDegrees),
                !.endAngle = noRevolutions(arc.endAngle + angleInDegrees)]

rotateMapBezier(bez, angleInDegrees, rotationOrigin) ==
    LET b == rotateMapLine(bez, angleInDegrees, rotationOrigin)
        F(p) == pointRotate(p, angleInDegrees, rotationOrigin)
    IN  IF HasControl(b)
        THEN [b EXCEPT !.control = F(b.control)]
        ELSE [b EXCEPT !.controls = [k \in DOMAIN b.controls |-> F(b.controls[k])]]

\* rotate without the early return for an angle of zero
rotate_NoZeroReturn(pathToRotate, angleInDegrees, rotationOrigin) ==
    LET o == [pathToRotate EXCEPT
                 !.origin = pointRotate(pathToRotate.origin, angleInDegrees, rotationOrigin)]
    IN  CASE o.type = "line" -> rotateMapLine(o, angleInDegrees, rotationOrigin)
          [] o.type = "arc" -> rotateMapArc(o, angleInDegrees, rotationOrigin)
          [] o.type = "bezier" -> rotateMapBezier(o, angleInDegrees, rotationOrigin)
          [] OTHER -> o

rotate(pathToRotate, angleInDegrees, rotationOrigin) ==
    IF angleInDegrees = 0 THEN pathToRotate
    ELSE LET o == [pathToRotate EXCEPT
                      !.origin = pointRotate(pathToRotate.origin, angleInDegrees, rotationOrigin)]
         IN  CASE o.type = "line" -> rotateMapLine(o, angleInDegrees, rotationOrigin)
               [] o.type = "arc" -> rotateMapArc(o, angleInDegrees, rotationOrigin)
               [] o.type = "bezier" -> rotateMapBezier(o, angleInDegrees, rotationOrigin)
               [] OTHER -> o

scaleMapLine(line, scaleValue) ==
    [line EXCEPT !.end = pointScale(line.end, scaleValue)]

scaleMapCircle(circle, scaleValue) ==
    [circle EXCEPT !.radius = circle.radius * scaleValue]

scaleMapBezier(bez, scaleValue) ==
    LET b == scaleMapLine(bez, scaleValue)
        F(p) == pointScale(p, scaleValue)
    IN  IF HasControl(b)
        THEN [b EXCEPT !.control = F(b.control)]
        ELSE [b EXCEPT !.controls = [k \in DOMAIN b.controls |-> F(b.controls[k])]]

scale(pathToScale, scaleValue) ==
    IF scaleValue = 1 THEN pathToScale
    ELSE LET o == [pathToScale EXCEPT !.origin = pointScale(pathToScale.origin, scaleValue)]
         IN  CASE o.type = "line" -> scaleMapLine(o, scaleValue)
               [] o.type = "bezier" -> scaleMapBezier(o, scaleValue)
               [] OTHER -> scaleMapCircle(o, scaleValue)

mirrorMapLine(line, origin, mirrorX, mirrorY) ==
    Line(origin, pointMirror(line.end, mirrorX, mirrorY))

mirrorMapCircle(circle, origin, mirrorX, mirrorY) == Circle(origin, circle.radius)

mirrorMapArc(arc, origin, mirrorX, mirrorY) ==
    LET startAngle == angleMirror(arc.startAngle, mirrorX, mirrorY)
        endAngle == angleMirror(ofArcEnd(arc), mirrorX, mirrorY)
        xor == mirrorX # mirrorY
    IN  Arc(origin, arc.radius,
            IF xor THEN endAngle ELSE startAngle,
            IF xor THEN startAngle ELSE endAngle)

mirrorMapBezier(bez, origin, mirrorX, mirrorY) ==
    LET points == IF HasControl(bez)
                  THEN <<bez.origin, bez.control, bez.end>>
                  ELSE <<bez.origin>> \o bez.controls \o <<bez.end>>
    IN  BezierFromPoints([k \in DOMAIN points |-> pointMirror(points[k], mirrorX, mirrorY)])

mirror(pathToMirror, mirrorX, mirrorY) ==
    LET origin == pointMirror(pathToMirror.origin, mirrorX, mirrorY)
        newPath ==
            CASE pathToMirror.type = "line" -> mirrorMapLine(pathToMirror, origin, mirrorX, mirrorY)
              [] pathToMirror.type = "circle" -> mirrorMapCircle(pathToMirror, origin, mirrorX, mirrorY)
              [] pathToMirror.type = "arc" -> mirrorMapArc(pathToMirror, origin, mirrorX, mirrorY)
              [] pathToMirror.type = "bezier" -> mirrorMapBezier(pathToMirror, origin, mirrorX, mirrorY)
    IN  copyLayer(pathToMirror, newPath)

(* -------------------------- equality engine --------------------------- *)

Bool(b) == IF b THEN "true" ELSE "false"

\* lines compared in their direction only
pathAreEqualMapLine_Directed(line1, line2) ==
    pointAreEqual(line1.origin, line2.origin) /\ pointAreEqual(line1.end, line2.end)

pathAreEqualMapLine(line1, line2) ==
    \/ (pointAreEqual(line1.origin, line2.origin) /\ pointAreEqual(line1.end, line2.end))
    \/ (pointAreEqual(line1.origin, line2.end) /\ pointAreEqual(line1.end, line2.origin))

pathAreEqualMapCircle(circle1, circle2) ==
    pointAreEqual(circle1.origin, circle2.origin) /\ circle1.radius = circle2.radius

pathAreEqualMapArc(arc1, arc2) ==
    /\ pathAreEqualMapCircle(arc1, arc2)
    /\ angleAreEqual(arc1.startAngle, arc2.startAngle)
    /\ angleAreEqual(arc1.endAngle, arc2.endAngle)

\* the comparison of two curves is not written yet: it answers null
pathAreEqualMapBezier(bezier1, bezier2) == "null"

\* "true", "false", or "null" when the variant's comparison answers null
areEqual(path1, path2) ==
    IF path1.type # path2.type THEN "false"
    ELSE CASE path1.type = "line" -> Bool(pathAreEqualMapLine(path1, path2))
           [] path1.type = "circle" -> Bool(pathAreEqualMapCircle(path1, path2))
           [] path1.type = "arc" -> Bool(pathAreEqualMapArc(path1, path2))
           [] path1.type = "bezier" -> pathAreEqualMapBezier(path1, path2)

(* ---------------------------- break engine ---------------------------- *)

\* an optional number counts as given when it is present and not zero
Truthy(opt) == opt # <<>> /\ opt[1] # 0

\* a break answers the source as it is left and the new path, <<>> for null
Broken(source, result) == [source |-> source, result |-> result]

\* a given angle taken clockwise instead of counter-clockwise
angleAtBreakPoint_Clockwise(arc, pointOfBreak, angleOfBreak) ==
    IF Truthy(angleOfBreak) THEN 360 - angleOfBreak[1]
    ELSE ofPointInDegrees(arc.origin, pointOfBreak)

angleAtBreakPoint(arc, pointOfBreak, angleOfBreak) ==
    IF Truthy(angleOfBreak) THEN angleOfBreak[1]
    ELSE ofPointInDegrees(arc.origin, pointOfBreak)

\* mutant: the angle found is reduced to [0, 360) before it is returned
getAngleStrictlyBetweenArcAngles_Normalised(arc, breakAngle) ==
    LET startAngle == noRevolutions(arc.startAngle)
        endAngle == startAngle + ofArcEnd(arc) - arc.startAngle
        Hit(t) == isBetween(breakAngle + 360 * t, startAngle, endAngle, TRUE)
    IN  IF Hit(0) \/ Hit(1) \/ Hit(-1) THEN <<noRevolutions(breakAngle)>> ELSE <<>>

\* <<>> when no turn of the break angle is inside the arc, else <<angle>>
getAngleStrictlyBetweenArcAngles(arc, breakAngle) ==
    LET startAngle == noRevolutions(arc.startAngle)
        endAngle == startAngle + ofArcEnd(arc) - arc.startAngle
        Hit(t) == isBetween(breakAngle + 360 * t, startAngle, endAngle, TRUE)
        Found(t) == <<arc.startAngle + breakAngle + 360 * t - startAngle>>
    IN  IF Hit(0) THEN Found(0)
        ELSE IF Hit(1) THEN Found(1)
        ELSE IF Hit(-1) THEN Found(-1)
        ELSE <<>>

\* mutant: the end angle is not saved before the source is changed
breakArc_EndNotSaved(arc, pointOfBreak, angleOfBreak) ==
    LET a == angleAtBreakPoint(arc, pointOfBreak, angleOfBreak)
        between == getAngleStrictlyBetweenArcAngles(arc, a)
    IN  IF isAngleEqual(a, arc.startAngle) \/ isAngleEqual(a, arc.endAngle)
        THEN Broken(arc, <<>>)
        ELSE IF between = <<>>
        THEN Broken(arc, <<>>)
        ELSE Broken([arc EXCEPT !.endAngle = between[1]],
                    <<Arc(arc.origin, arc.radius, between[1], between[1])>>)

\* mutant: the break angle is only tried as it is, without a turn added
breakArc_NoTurns(arc, pointOfBreak, angleOfBreak) ==
    LET a == angleAtBreakPoint(arc, pointOfBreak, angleOfBreak)
        startAngle == noRevolutions(arc.startAngle)
        endAngle == startAngle + ofArcEnd(arc) - arc.startAngle
    IN  IF isAngleEqual(a, arc.startAngle) \/ isAngleEqual(a, arc.endAngle)
        THEN Broken(arc, <<>>)
        ELSE IF ~isBetween(a, startAngle, endAngle, TRUE)
        THEN Broken(arc, <<>>)
        ELSE Broken([arc EXCEPT !.endAngle = arc.startAngle + a - startAngle],
                    <<Arc(arc.origin, arc.radius, arc.startAngle + a - startAngle, arc.endAngle)>>)

\* the end angle is written before the break angle is known to be inside
breakArc_EndWrittenFirst(arc, pointOfBreak, angleOfBreak) ==
    LET a == angleAtBreakPoint(arc, pointOfBreak, angleOfBreak)
        between == getAngleStrictlyBetweenArcAngles(arc, a)
    IN  IF isAngleEqual(a, arc.startAngle) \/ isAngleEqual(a, arc.endAngle)
        THEN Broken(arc, <<>>)
        ELSE IF between = <<>>
        THEN Broken([arc EXCEPT !.endAngle = a], <<>>)
        ELSE Broken([arc EXCEPT !.endAngle = between[1]],
                    <<Arc(arc.origin, arc.radius, between[1], arc.endAngle)>>)

\* the piece returned starts where the source starts, not at the break angle
breakArc_StartKept(arc, pointOfBreak, angleOfBreak) ==
    LET a == angleAtBreakPoint(arc, pointOfBreak, angleOfBreak)
        between == getAngleStrictlyBetweenArcAngles(arc, a)
    IN  IF isAngleEqual(a, arc.startAngle) \/ isAngleEqual(a, arc.endAngle)
        THEN Broken(arc, <<>>)
        ELSE IF between = <<>>
        THEN Broken(arc, <<>>)
        ELSE Broken([arc EXCEPT !.endAngle = between[1]],
                    <<Arc(arc.origin, arc.radius, arc.startAngle, arc.endAngle)>>)

breakArc(arc, pointOfBreak, angleOfBreak) ==
    LET a == angleAtBreakPoint(arc, pointOfBreak, angleOfBreak)
        between == getAngleStrictlyBetweenArcAngles(arc, a)
    IN  IF isAngleEqual(a, arc.startAngle) \/ isAngleEqual(a, arc.endAngle)
        THEN Broken(arc, <<>>)
        ELSE IF between = <<>>
        THEN Broken(arc, <<>>)
        ELSE Broken([arc EXCEPT !.endAngle = between[1]],
                    <<Arc(arc.origin, arc.radius, between[1], arc.endAngle)>>)

\* mutant: the full turn is not added to the end angle
breakCircle_NoTurn(circle, pointOfBreak, angleOfBreak) ==
    LET a == ofPointInDegrees(circle.origin, pointOfBreak)
    IN  Broken([type |-> "arc", origin |-> circle.origin, radius |-> circle.radius,
                startAngle |-> a, endAngle |-> a, layer |-> circle.layer],
               <<>>)

\* the circle is opened at the angle given, as an arc is, when one is given
breakCircle_AngleGiven(circle, pointOfBreak, angleOfBreak) ==
    LET a == IF Truthy(angleOfBreak) THEN angleOfBreak[1]
             ELSE ofPointInDegrees(circle.origin, pointOfBreak)
    IN  Broken([type |-> "arc", origin |-> circle.origin, radius |-> circle.radius,
                startAngle |-> a, endAngle |-> a + 360, layer |-> circle.layer],
               <<>>)

breakCircle(circle, pointOfBreak, angleOfBreak) ==
    LET a == ofPointInDegrees(circle.origin, pointOfBreak)
    IN  Broken([type |-> "arc", origin |-> circle.origin, radius |-> circle.radius,
                startAngle |-> a, endAngle |-> a + 360, layer |-> circle.layer],
               <<>>)

\* mutant: the end point is not saved before the source is changed
breakLine_EndNotSaved(line, pointOfBreak, angleOfBreak) ==
    IF ~isBetweenPoints(pointOfBreak, line, TRUE)
    THEN Broken(line, <<>>)
    ELSE Broken([line EXCEPT !.end = pointOfBreak], <<Line(pointOfBreak, pointOfBreak)>>)

\* mutant: the end points of the segment are let through
breakLine_Inclusive(line, pointOfBreak, angleOfBreak) ==
    IF ~isBetweenPoints(pointOfBreak, line, FALSE)
    THEN Broken(line, <<>>)
    ELSE Broken([line EXCEPT !.end = pointOfBreak], <<Line(pointOfBreak, line.end)>>)

breakLine(line, pointOfBreak, angleOfBreak) ==
    IF ~isBetweenPoints(pointOfBreak, line, TRUE)
    THEN Broken(line, <<>>)
    ELSE Broken([line EXCEPT !.end = pointOfBreak], <<Line(pointOfBreak, line.end)>>)

\* the curve subdivision: the source ends at the split point, the tail goes
\* from there to the old end and has as many control points as the source
bezierBreakAt(bez, splitPoint) ==
    Broken([bez EXCEPT !.end = splitPoint],
           <<[[bez EXCEPT !.origin = splitPoint] EXCEPT !.layer = <<>>]>>)

breakPath(pathToBreak, pointOfBreak, angleOfBreak, splitPoint) ==
    CASE pathToBreak.type = "arc" -> breakArc(pathToBreak, pointOfBreak, angleOfBreak)
      [] pathToBreak.type = "circle" -> breakCircle(pathToBreak, pointOfBreak, angleOfBreak)
      [] pathToBreak.type = "line" -> breakLine(pathToBreak, pointOfBreak, angleOfBreak)
      [] pathToBreak.type = "bezier" -> bezierBreakAt(pathToBreak, splitPoint)
      [] OTHER -> Broken(pathToBreak, <<>>)

\* breakAtPoint that leaves the piece it returns without the source's layer
breakAtPoint_NoLayer(pathToBreak, pointOfBreak, angleOfBreak, splitPoint) ==
    IF pointOfBreak = <<>> THEN Broken(pathToBreak, <<>>)
    ELSE breakPath(pathToBreak, pointOfBreak[1], angleOfBreak, splitPoint)

\* pointOfBreak is optional: <<>> stands for an absent point
breakAtPoint(pathToBreak, pointOfBreak, angleOfBreak, splitPoint) ==
    IF pointOfBreak = <<>> THEN Broken(pathToBreak, <<>>)
    ELSE LET b == breakPath(pathToBreak, pointOfBreak[1], angleOfBreak, splitPoint)
         IN  IF b.result # <<>> /\ pathToBreak.layer # <<>>
             THEN Broken(b.source, <<[b.result[1] EXCEPT !.layer = pathToBreak.layer]>>)
             ELSE b

(* ----------------------- scoped temporary move ------------------------- *)

\* deltas[i], <<>> when the list has no delta at i
deltaAt(deltas, i) == IF i \in DOMAIN deltas THEN deltas[i] ELSE <<>>

\* mutant: the flag is read the wrong way round, the undo pass comes first
moveTemporaryMove_Reversed(h, pathsToMove, deltas, i, subtract) ==
    IF deltaAt(deltas, i) # <<>>
    THEN [h EXCEPT ![pathsToMove[i]] = moveRelative(h[pathsToMove[i]], deltaAt(deltas, i), ~subtract)]
    ELSE h

\* the inner function move(pathToOffset, i) of moveTemporary
moveTemporaryMove(h, pathsToMove, deltas, i, subtract) ==
    IF deltaAt(deltas, i) # <<>>
    THEN [h EXCEPT ![pathsToMove[i]] = moveRelative(h[pathsToMove[i]], deltaAt(deltas, i), subtract)]
    ELSE h

RECURSIVE moveTemporaryMap(_, _, _, _, _)
\* pathsToMove.map(move), from index i on
moveTemporaryMap(h, pathsToMove, deltas, i, subtract) ==
    IF i > Len(pathsToMove) THEN h
    ELSE moveTemporaryMap(moveTemporaryMove(h, pathsToMove, deltas, i, subtract),
                          pathsToMove, deltas, i + 1, subtract)

(* ------------------------------- inputs ------------------------------- *)

WithLayer(p, layer) == [p EXCEPT !.layer = <<layer>>]

InitLines ==
    { Line(<<0, 0>>, <<2, 0>>), Line(<<0, 0>>, <<2, 2>>), Line(<<1, 1>>, <<1, -1>>) }

InitCircles == { Circle(<<0, 0>>, 1), Circle(<<1, 1>>, 2) }

InitArcs ==
    { Arc(<<0, 0>>, 1, 0, 90), Arc(<<0, 0>>, 1, 350, 10), Arc(<<0, 0>>, 1, 90, 0),
      Arc(<<0, 0>>, 1, 10, 350), Arc(<<1, 1>>, 2, 0, 0), Arc(<<0, 0>>, 1, 270, 45) }

InitBeziers ==
    { Bezier1(<<0, 0>>, <<1, 1>>, <<2, 0>>),
      BezierN(<<0, 0>>, << <<0, 1>>, <<2, 1>> >>, <<2, 0>>),
      BezierN(<<0, 0>>, << <<1, 1>> >>, <<2, 0>>) }

PlainPaths == InitLines \cup InitCircles \cup InitArcs \cup InitBeziers

LayeredPaths ==
    { WithLayer(p, "cut") :
        p \in { Line(<<0, 0>>, <<2, 0>>), Circle(<<0, 0>>, 1), Arc(<<0, 0>>, 1, 350, 10),
                Bezier1(<<0, 0>>, <<1, 1>>, <<2, 0>>) } }

InitPaths == PlainPaths \cup LayeredPaths

MovePoints == { <<1, 2>>, <<0, 0>> }

Deltas == { <<1, -1>>, <<0, 2>> }

RotateArgs == { <<0, <<1, 0>> >>, <<90, <<1, 0>> >>, <<180, <<0, 0>> >> }

ScaleValues == { 1, 2 }

BreakPoints ==
    { <<0, 0>>, <<1, 0>>, <<2, 0>>, <<1, 1>>, <<0, 1>>, <<-1, 0>>, <<0, -1>>, <<1, -1>> }

BreakAngles == { <<0>>, <<5>>, <<10>>, <<350>>, <<355>>, <<365>> }

\* the calls of breakAtPoint: a point alone, or a point with its angle given
BreakArgs ==
    { <<p, <<>> >> : p \in BreakPoints } \cup { << <<1, 0>>, a >> : a \in BreakAngles }

SplitPoints == { <<1, 1>>, <<2, 0>> }

(* ---------------------------- state machine --------------------------- *)

\* the point objects of the paths are not told apart
NoOwn == [of |-> <<>>, next |-> 1, arg |-> 0]

NoArg == [point |-> <<>>, angle |-> <<>>, num |-> 0, flag |-> FALSE, flagY |-> FALSE, other |-> 0]

\* no call before the last one
NoPrev == [op |-> "init", target |-> 0, ret |-> 0, arg |-> NoArg]

Did(op, target, ret, eq, arg) ==
    [op |-> op, target |-> target, ret |-> ret, eq |-> eq, pre |-> heap, arg |-> arg,
     failed |-> FALSE,
     prev |-> [op |-> last.op, target |-> last.target, ret |-> last.ret, arg |-> last.arg]]

Idle == [pc |-> "idle", paths |-> <<>>, deltas |-> <<>>, pre |-> <<>>, taskCalls |-> 0,
         taskArgs |-> <<>>]

Init ==
    /\ heap \in { <<p>> : p \in InitPaths }
    /\ last = [op |-> "init", target |-> 0, ret |-> 0, eq |-> "", pre |-> <<>>, arg |-> NoArg,
              failed |-> FALSE,
              prev |-> NoPrev]
    /\ steps = 0
    /\ mt = Idle
    /\ own = NoOwn

Refs == DOMAIN heap

Clone(i) ==
    /\ steps < MaxSteps
    /\ heap' = Append(heap, clone(heap[i]))
    /\ last' = Did("clone", i, Len(heap) + 1, "", NoArg)
    /\ steps' = steps + 1
    /\ UNCHANGED <<mt, own>>

Mirror(i, mirrorX, mirrorY) ==
    /\ steps < MaxSteps
    /\ heap' = Append(heap, mirror(heap[i], mirrorX, mirrorY))
    /\ last' = Did("mirror", i, Len(heap) + 1, "",
                   [NoArg EXCEPT !.flag = mirrorX, !.flagY = mirrorY])
    /\ steps' = steps + 1
    /\ UNCHANGED <<mt, own>>

Move(i, origin) ==
    /\ steps < MaxSteps
    /\ heap' = [heap EXCEPT ![i] = move(heap[i], origin)]
    /\ last' = Did("move", i, i, "", [NoArg EXCEPT !.point = <<origin>>])
    /\ steps' = steps + 1
    /\ UNCHANGED <<mt, own>>

MoveRelative(i, delta, subtract) ==
    /\ steps < MaxSteps
    /\ heap' = [heap EXCEPT ![i] = moveRelative(heap[i], <<delta>>, subtract)]
    /\ last' = Did("moveRelative", i, i, "", [NoArg EXCEPT !.point = <<delta>>, !.flag = subtract])
    /\ steps' = steps + 1
    /\ UNCHANGED <<mt, own>>

Rotate(i, angleInDegrees, rotationOrigin) ==
    /\ steps < MaxSteps
    /\ heap' = [heap EXCEPT ![i] = rotate(heap[i], angleInDegrees, rotationOrigin)]
    /\ last' = Did("rotate", i, i, "",
                   [NoArg EXCEPT !.point = <<rotationOrigin>>, !.num = angleInDegrees])
    /\ steps' = steps + 1
    /\ UNCHANGED <<mt, own>>

Scale(i, scaleValue) ==
    /\ steps < MaxSteps
    /\ heap' = [heap EXCEPT ![i] = scale(heap[i], scaleValue)]
    /\ last' = Did("scale", i, i, "", [NoArg EXCEPT !.num = scaleValue])
    /\ steps' = steps + 1
    /\ UNCHANGED <<mt, own>>

AreEqual(i, j) ==
    /\ steps < MaxSteps
    /\ last' = Did("areEqual", i, 0, areEqual(heap[i], heap[j]), [NoArg EXCEPT !.other = j])
    /\ steps' = steps + 1
    /\ UNCHANGED <<heap, mt, own>>

\* the polar angle of the point is read and is a whole number of degrees
AngleReadable(p, pointOfBreak, angleOfBreak) ==
    \/ p.type \in {"line", "bezier"}
    \/ (p.type = "arc" /\ Truthy(angleOfBreak))
    \/ IsCompass(p.origin, pointOfBreak)

BreakAtPoint(i, pointOfBreak, angleOfBreak, splitPoint) ==
    /\ steps < MaxSteps
    /\ AngleReadable(heap[i], pointOfBreak, angleOfBreak)
    /\ LET b == breakAtPoint(heap[i], <<pointOfBreak>>, angleOfBreak, splitPoint)
           h == [heap EXCEPT ![i] = b.source]
       IN  /\ heap' = IF b.result = <<>> THEN h ELSE Append(h, b.result[1])
           /\ last' = Did("breakAtPoint", i, IF b.result = <<>> THEN 0 ELSE Len(heap) + 1, "",
                          [NoArg EXCEPT !.point = <<pointOfBreak>>, !.angle = angleOfBreak])
    /\ steps' = steps + 1
    /\ UNCHANGED <<mt, own>>

Next ==
    \/ \E i \in Refs : Clone(i)
    \/ \E i \in Refs, mirrorX \in BOOLEAN, mirrorY \in BOOLEAN : Mirror(i, mirrorX, mirrorY)
    \/ \E i \in Refs, origin \in MovePoints : Move(i, origin)
    \/ \E i \in Refs, delta \in Deltas, subtract \in BOOLEAN : MoveRelative(i, delta, subtract)
    \/ \E i \in Refs, r \in RotateArgs : Rotate(i, r[1], r[2])
    \/ \E i \in Refs, scaleValue \in ScaleValues : Scale(i, scaleValue)
    \/ \E i \in Refs, j \in Refs : AreEqual(i, j)
    \/ \E i \in Refs, a \in BreakArgs :
          \E splitPoint \in (IF heap[i].type = "bezier" THEN SplitPoints ELSE {a[1]}) :
             BreakAtPoint(i, a[1], a[2], splitPoint)

Spec == Init /\ [][Next]_vars

(* ------------------- moveTemporary as a running call ------------------ *)

MTPaths ==
    { Line(<<0, 0>>, <<2, 0>>), WithLayer(Circle(<<0, 0>>, 1), "cut"),
      Arc(<<0, 0>>, 1, 350, 10), Bezier1(<<0, 0>>, <<1, 1>>, <<2, 0>>),
      BezierN(<<0, 0>>, << <<0, 1>>, <<2, 1>> >>, <<2, 0>>) }

\* the lists of one or two references to the objects of the heap
PathLists == { <<i>> : i \in Refs } \cup { <<i, j>> : i \in Refs, j \in Refs }

OptDeltas == { <<>> } \cup { <<d>> : d \in Deltas }

\* the lists of deltas, shorter than, as long as or with holes against the paths
DeltaLists ==
    { <<>> } \cup { <<d>> : d \in OptDeltas } \cup { <<d, e>> : d \in OptDeltas, e \in OptDeltas }

InitMT ==
    /\ heap \in { <<p, q>> : p \in MTPaths, q \in MTPaths }
    /\ last = [op |-> "init", target |-> 0, ret |-> 0, eq |-> "", pre |-> <<>>, arg |-> NoArg,
              failed |-> FALSE,
              prev |-> NoPrev]
    /\ steps = 0
    /\ mt = Idle
    /\ own = NoOwn

\* moveTemporary up to the call of the task: the deltas are applied
MoveTemporaryCall(pathsToMove, deltas) ==
    /\ steps < MaxSteps
    /\ mt.pc # "task"
    /\ heap' = moveTemporaryMap(heap, pathsToMove, deltas, 1, FALSE)
    /\ mt' = [pc |-> "task", paths |-> pathsToMove, deltas |-> deltas, pre |-> heap,
              taskCalls |-> 1, taskArgs |-> <<>>]
    /\ steps' = steps + 1
    /\ UNCHANGED <<last, own>>

\* the task returns: moveTemporary reverses the deltas and returns
TaskReturns ==
    /\ mt.pc = "task"
    /\ heap' = moveTemporaryMap(heap, mt.paths, mt.deltas, 1, TRUE)
    /\ mt' = [mt EXCEPT !.pc = "done"]
    /\ UNCHANGED <<last, steps, own>>

\* the task throws: the exception leaves moveTemporary at the call
TaskThrows ==
    /\ mt.pc = "task"
    /\ mt' = [mt EXCEPT !.pc = "thrown"]
    /\ UNCHANGED <<heap, last, steps, own>>

NextMT ==
    \/ \E pathsToMove \in PathLists, deltas \in DeltaLists : MoveTemporaryCall(pathsToMove, deltas)
    \/ TaskReturns
    \/ TaskThrows

SpecMT == InitMT /\ [][NextMT]_vars

(* ------------------- the renderer's use of the engine ------------------ *)

\* the heap after a call and the reference the call returned
Fixed(h, ret) == [heap |-> h, ret |-> ret]

\* fixPath that scales and moves the path it is given, with no mirrored copy
fixPath_NoCopy(h, pathToFix, origin, optsScale) ==
    Fixed([h EXCEPT ![pathToFix] = moveRelative(scale(h[pathToFix], optsScale), <<origin>>, FALSE)],
          pathToFix)

\* pathToFix is a reference into heap h; opts.scale is the scale of the export
fixPath(h, pathToFix, origin, optsScale) ==
    LET mirrorY == Len(h) + 1
        h1 == Append(h, mirror(h[pathToFix], FALSE, TRUE))
        h2 == [h1 EXCEPT ![mirrorY] = scale(h1[mirrorY], optsScale)]
    IN  Fixed([h2 EXCEPT ![mirrorY] = moveRelative(h2[mirrorY], <<origin>>, FALSE)], mirrorY)

FixPath(i, origin, optsScale) ==
    /\ steps < MaxSteps
    /\ LET f == fixPath(heap, i, origin, optsScale)
       IN  /\ heap' = f.heap
           /\ last' = Did("fixPath", i, f.ret, "",
                          [NoArg EXCEPT !.point = <<origin>>, !.num = optsScale])
    /\ steps' = steps + 1
    /\ UNCHANGED <<mt, own>>

NextRender ==
    \/ \E i \in Refs : Clone(i)
    \/ \E i \in Refs, mirrorX \in BOOLEAN, mirrorY \in BOOLEAN : Mirror(i, mirrorX, mirrorY)
    \/ \E i \in Refs, origin \in MovePoints, optsScale \in ScaleValues :
          FixPath(i, origin, optsScale)

SpecRender == Init /\ [][NextRender]_vars

(* ------------------ calls with a null or absent argument --------------- *)

\* A path argument is optional here: <<>> is null.  A call ends by returning
\* a value or by throwing: reading a property of null throws a TypeError.
Returns(value) == [failed |-> FALSE, value |-> value]

Throws == [failed |-> TRUE, value |-> <<>>]

\* switch (pathToClone.type) comes with no test of pathToClone
cloneCall(pathToClone) ==
    IF pathToClone = <<>> THEN Throws ELSE Returns(<<clone(pathToClone[1])>>)

mirrorCall(pathToMirror, mirrorX, mirrorY) ==
    IF pathToMirror = <<>> THEN Returns(<<>>)
    ELSE Returns(<<mirror(pathToMirror[1], mirrorX, mirrorY)>>)

moveCall(pathToMove, origin) ==
    IF pathToMove = <<>> THEN Returns(pathToMove) ELSE Returns(<<move(pathToMove[1], origin)>>)

moveRelativeCall(pathToMove, delta, subtract) ==
    IF pathToMove = <<>> THEN Returns(pathToMove)
    ELSE Returns(<<moveRelative(pathToMove[1], delta, subtract)>>)

rotateCall(pathToRotate, angleInDegrees, rotationOrigin) ==
    IF pathToRotate = <<>> THEN Returns(pathToRotate)
    ELSE Returns(<<rotate(pathToRotate[1], angleInDegrees, rotationOrigin)>>)

scaleCall(pathToScale, scaleValue) ==
    IF pathToScale = <<>> THEN Returns(pathToScale)
    ELSE Returns(<<scale(pathToScale[1], scaleValue)>>)

\* path1.type == path2.type comes with no test of path1 or path2
areEqualCall(path1, path2) ==
    IF path1 = <<>> \/ path2 = <<>> THEN Throws ELSE Returns(areEqual(path1[1], path2[1]))

breakAtPointCall(pathToBreak, pointOfBreak, angleOfBreak, splitPoint) ==
    IF pathToBreak = <<>> THEN Returns(<<>>)
    ELSE Returns(breakAtPoint(pathToBreak[1], pointOfBreak, angleOfBreak, splitPoint).result)

\* the operation called with null for its path
callWithNull(op, point, num) ==
    CASE op = "clone" -> cloneCall(<<>>)
      [] op = "mirror" -> mirrorCall(<<>>, TRUE, FALSE)
      [] op = "move" -> moveCall(<<>>, point)
      [] op = "moveRelative" -> moveRelativeCall(<<>>, <<point>>, FALSE)
      [] op = "rotate" -> rotateCall(<<>>, 90 * num, point)
      [] op = "scale" -> scaleCall(<<>>, num)
      [] op = "breakAtPoint" -> breakAtPointCall(<<>>, <<point>>, <<>>, point)

EngineOps == {"clone", "mirror", "move", "moveRelative", "rotate", "scale", "breakAtPoint"}

\* a call that was given no path: no object is there to be changed
NullPathCall(op, point, num) ==
    /\ steps < MaxSteps
    /\ LET c == callWithNull(op, point, num)
       IN  last' = [Did(op, 0, 0, "", [NoArg EXCEPT !.point = <<point>>, !.num = num])
                      EXCEPT !.failed = c.failed]
    /\ steps' = steps + 1
    /\ UNCHANGED <<heap, mt, own>>

\* areEqual given null for one of its paths, or for both
AreEqualNull(path1, path2) ==
    /\ steps < MaxSteps
    /\ path1 = <<>> \/ path2 = <<>>
    /\ LET c == areEqualCall(path1, path2)
       IN  last' = [Did("areEqual", 0, 0, "", NoArg) EXCEPT !.failed = c.failed]
    /\ steps' = steps + 1
    /\ UNCHANGED <<heap, mt, own>>

\* moveRelative given a path and no delta
MoveRelativeNoDelta(i, subtract) ==
    /\ steps < MaxSteps
    /\ heap' = [heap EXCEPT ![i] = moveRelative(heap[i], <<>>, subtract)]
    /\ last' = Did("moveRelative", i, i, "", [NoArg EXCEPT !.flag = subtract])
    /\ steps' = steps + 1
    /\ UNCHANGED <<mt, own>>

\* breakAtPoint given a path and no point
BreakAtPointNoPoint(i, angleOfBreak) ==
    /\ steps < MaxSteps
    /\ LET b == breakAtPoint(heap[i], <<>>, angleOfBreak, heap[i].origin)
       IN  /\ heap' = [heap EXCEPT ![i] = b.source]
           /\ last' = Did("breakAtPoint", i, IF b.result = <<>> THEN 0 ELSE Len(heap) + 1, "",
                          [NoArg EXCEPT !.angle = angleOfBreak])
    /\ steps' = steps + 1
    /\ UNCHANGED <<mt, own>>

NextNull ==
    \/ \E op \in EngineOps, point \in MovePoints, num \in ScaleValues : NullPathCall(op, point, num)
    \/ \E path1 \in {<<>>} \cup {<<heap[i]>> : i \in Refs},
          path2 \in {<<>>} \cup {<<heap[i]>> : i \in Refs} : AreEqualNull(path1, path2)
    \/ \E i \in Refs, subtract \in BOOLEAN : MoveRelativeNoDelta(i, subtract)
    \/ \E i \in Refs, angleOfBreak \in {<<>>, <<5>>} : BreakAtPointNoPoint(i, angleOfBreak)

SpecNull == Init /\ [][NextNull]_vars

(* ------------------- the point objects of the paths ------------------- *)

\* A point is an array object.  own.of[i][f] is the identity of the point
\* object that property f of path object i refers to, own.next is the first
\* identity not yet given out and own.arg the point object the caller passed
\* to the last call (0 if none).  The constructors of the paths keep the
\* point objects they are given; the point functions return a new one.

PointFields(path) == {"origin", "end", "control"} \cap DOMAIN path

\* a path all of whose points are new objects, numbered from next on
FreshOwn(path, next) ==
    [f \in PointFields(path) |->
        next + (CASE f = "origin" -> 0 [] f = "end" -> 1 [] f = "control" -> 2)]

\* every point goes through point.clone
cloneOwn(pathToClone, next) == FreshOwn(pathToClone, next)

\* every point goes through point.mirror
mirrorOwn(pathToMirror, next) == FreshOwn(pathToMirror, next)

\* end and control come from movePoint; the origin is the object passed in
moveOwn(pathToMove, origin, next) == [FreshOwn(pathToMove, next) EXCEPT !.origin = origin]

\* line.end = pointOfBreak; new paths.Line(pointOfBreak, savedEndPoint)
breakLineOwn(o, pointOfBreak) ==
    Broken([o EXCEPT !.end = pointOfBreak], <<[origin |-> pointOfBreak, end |-> o.end]>>)

\* new paths.Arc(arc.origin, ...)
breakArcOwn(o) == Broken(o, <<[origin |-> o.origin]>>)

\* returned says whether the break function returned a path
breakOwn(pathToBreak, o, pointOfBreak, returned) ==
    IF ~returned THEN Broken(o, <<>>)
    ELSE CASE pathToBreak.type = "line" -> breakLineOwn(o, pointOfBreak)
           [] pathToBreak.type = "arc" -> breakArcOwn(o)

\* the curves with a list of control points are left out
AliasPaths == InitLines \cup InitCircles \cup InitArcs \cup { Bezier1(<<0, 0>>, <<1, 1>>, <<2, 0>>) }

InitAlias ==
    /\ heap \in { <<p>> : p \in AliasPaths }
    /\ last = [op |-> "init", target |-> 0, ret |-> 0, eq |-> "", pre |-> <<>>, arg |-> NoArg,
               failed |-> FALSE, prev |-> NoPrev]
    /\ steps = 0
    /\ mt = Idle
    /\ own = [of |-> <<FreshOwn(heap[1], 1)>>, next |-> 4, arg |-> 0]

\* the points a caller can pass: a new point object with one of the values,
\* or the point object of a property of a path
CallerPoints(values) ==
    { [id |-> own.next, at |-> v] : v \in values }
    \cup UNION { { [id |-> own.of[j][f], at |-> heap[j][f]] :
                        f \in {"origin", "end"} \cap DOMAIN heap[j] } : j \in Refs }

AliasClone(i) ==
    /\ steps < MaxSteps
    /\ heap' = Append(heap, clone(heap[i]))
    /\ own' = [of |-> Append(own.of, cloneOwn(heap[i], own.next)), next |-> own.next + 3, arg |-> 0]
    /\ last' = Did("clone", i, Len(heap) + 1, "", NoArg)
    /\ steps' = steps + 1
    /\ UNCHANGED mt

AliasMirror(i, mirrorX, mirrorY) ==
    /\ steps < MaxSteps
    /\ heap' = Append(heap, mirror(heap[i], mirrorX, mirrorY))
    /\ own' = [of |-> Append(own.of, mirrorOwn(heap[i], own.next)), next |-> own.next + 3, arg |-> 0]
    /\ last' = Did("mirror", i, Len(heap) + 1, "",
                   [NoArg EXCEPT !.flag = mirrorX, !.flagY = mirrorY])
    /\ steps' = steps + 1
    /\ UNCHANGED mt

AliasMove(i, origin) ==
    /\ steps < MaxSteps
    /\ heap' = [heap EXCEPT ![i] = move(heap[i], origin.at)]
    /\ own' = [of |-> [own.of EXCEPT ![i] = moveOwn(heap[i], origin.id, own.next + 1)],
               next |-> own.next + 4, arg |-> origin.id]
    /\ last' = Did("move", i, i, "", [NoArg EXCEPT !.point = <<origin.at>>])
    /\ steps' = steps + 1
    /\ UNCHANGED mt

\* the subdivision of a curve is not part of the engine and is left out
AliasBreakAtPoint(i, pointOfBreak) ==
    /\ steps < MaxSteps
    /\ heap[i].type # "bezier"
    /\ AngleReadable(heap[i], pointOfBreak.at, <<>>)
    /\ LET b == breakAtPoint(heap[i], <<pointOfBreak.at>>, <<>>, pointOfBreak.at)
           o == breakOwn(heap[i], own.of[i], pointOfBreak.id, b.result # <<>>)
           h == [heap EXCEPT ![i] = b.source]
           w == [own.of EXCEPT ![i] = o.source]
       IN  /\ heap' = IF b.result = <<>> THEN h ELSE Append(h, b.result[1])
           /\ own' = [of |-> IF o.result = <<>> THEN w ELSE Append(w, o.result[1]),
                      next |-> own.next + 1, arg |-> pointOfBreak.id]
           /\ last' = Did("breakAtPoint", i, IF b.result = <<>> THEN 0 ELSE Len(heap) + 1, "",
                          [NoArg EXCEPT !.point = <<pointOfBreak.at>>])
    /\ steps' = steps + 1
    /\ UNCHANGED mt

NextAlias ==
    \/ \E i \in Refs : AliasClone(i)
    \/ \E i \in Refs, mirrorX \in BOOLEAN, mirrorY \in BOOLEAN : AliasMirror(i, mirrorX, mirrorY)
    \/ \E i \in Refs : \E origin \in CallerPoints(MovePoints) : AliasMove(i, origin)
    \/ \E i \in Refs : \E pointOfBreak \in CallerPoints(BreakPoints) :
          AliasBreakAtPoint(i, pointOfBreak)

SpecAlias == InitAlias /\ [][NextAlias]_vars

(* ------------- the earlier definitions of clone and mirror ------------- *)

\* The repository carries earlier definitions of the engine next to the one
\* above.  They return null (here <<>>) where they have no case for a variant.

\* clone without a case for curves
cloneEarlier(pathToClone) ==
    IF pathToClone.type = "bezier" THEN <<>> ELSE <<clone(pathToClone)>>

\* mirror whose function for curves returns null
mirrorEarlier(pathToMirror, mirrorX, mirrorY) ==
    IF pathToMirror.type = "bezier" THEN <<>> ELSE <<mirror(pathToMirror, mirrorX, mirrorY)>>

\* the second definition of mirror: its function for curves is empty and the
\* layer of the source is not copied
mirrorSecondDefinition(pathToMirror, mirrorX, mirrorY) ==
    LET origin == pointMirror(pathToMirror.origin, mirrorX, mirrorY)
    IN  CASE pathToMirror.type = "line" -> <<mirrorMapLine(pathToMirror, origin, mirrorX, mirrorY)>>
          [] pathToMirror.type = "circle" -> <<mirrorMapCircle(pathToMirror, origin, mirrorX, mirrorY)>>
          [] pathToMirror.type = "arc" -> <<mirrorMapArc(pathToMirror, origin, mirrorX, mirrorY)>>
          [] pathToMirror.type = "bezier" -> <<>>

\* a call that returns a new path or null
Made(op, i, newPath, arg) ==
    /\ steps < MaxSteps
    /\ heap' = IF newPath = <<>> THEN heap ELSE Append(heap, newPath[1])
    /\ last' = Did(op, i, IF newPath = <<>> THEN 0 ELSE Len(heap) + 1, "", arg)
    /\ steps' = steps + 1
    /\ UNCHANGED <<mt, own>>

CloneEarlier(i) == Made("clone", i, cloneEarlier(heap[i]), NoArg)

MirrorEarlier(i, mirrorX, mirrorY) ==
    Made("mirror", i, mirrorEarlier(heap[i], mirrorX, mirrorY),
         [NoArg EXCEPT !.flag = mirrorX, !.flagY = mirrorY])

MirrorSecondDefinition(i, mirrorX, mirrorY) ==
    Made("mirror", i, mirrorSecondDefinition(heap[i], mirrorX, mirrorY),
         [NoArg EXCEPT !.flag = mirrorX, !.flagY = mirrorY])

NextEarlier ==
    \/ \E i \in Refs : CloneEarlier(i)
    \/ \E i \in Refs, mirrorX \in BOOLEAN, mirrorY \in BOOLEAN : MirrorEarlier(i, mirrorX, mirrorY)
    \/ \E i \in Refs, mirrorX \in BOOLEAN, mirrorY \in BOOLEAN :
          MirrorSecondDefinition(i, mirrorX, mirrorY)

SpecEarlier == Init /\ [][NextEarlier]_vars

(* ------------------------ tests of the variants ------------------------ *)

\* A test returns the value of a chain of &&, taken here for its truth: an
\* object and a point (an array) are truthy, a number is truthy unless zero.

isPath(item) == item.type # "" /\ Len(item.origin) = 2

isPathArc(item) ==
    /\ isPath(item)
    /\ item.type = "arc"
    /\ item.radius # 0
    /\ item.startAngle # 0
    /\ item.endAngle # 0

IsPathArc(i) ==
    /\ steps < MaxSteps
    /\ last' = Did("isPathArc", i, 0, Bool(isPathArc(heap[i])), NoArg)
    /\ steps' = steps + 1
    /\ UNCHANGED <<heap, mt, own>>

\* the tests applied to the paths that the engine is given and leaves
NextTests ==
    \/ \E i \in Refs : IsPathArc(i)
    \/ \E i \in Refs, r \in RotateArgs : Rotate(i, r[1], r[2])
    \/ \E i \in Refs, a \in BreakArgs : BreakAtPoint(i, a[1], a[2], a[1])

SpecTests == Init /\ [][NextTests]_vars

(* --------------------- the engine on arcs and circles ------------------ *)

ArcPaths == InitArcs \cup InitCircles \cup { WithLayer(Arc(<<0, 0>>, 1, 350, 10), "cut") }

InitArcsOnly ==
    /\ heap \in { <<p>> : p \in ArcPaths }
    /\ last = [op |-> "init", target |-> 0, ret |-> 0, eq |-> "", pre |-> <<>>, arg |-> NoArg,
               failed |-> FALSE, prev |-> NoPrev]
    /\ steps = 0
    /\ mt = Idle
    /\ own = NoOwn

\* rotations forwards, backwards and by more than a turn
ArcRotateArgs ==
    { <<0, <<0, 0>> >>, <<90, <<0, 0>> >>, <<-90, <<0, 0>> >>, <<180, <<1, 0>> >>,
      <<450, <<0, 0>> >> }

NextArcs ==
    \/ \E i \in Refs, r \in ArcRotateArgs : Rotate(i, r[1], r[2])
    \/ \E i \in Refs, mirrorX \in BOOLEAN, mirrorY \in BOOLEAN : Mirror(i, mirrorX, mirrorY)
    \/ \E i \in Refs, a \in BreakArgs : BreakAtPoint(i, a[1], a[2], a[1])
    \/ \E i \in Refs, p \in BreakPoints :
          /\ IsCompass(heap[i].origin, p)
          /\ BreakAtPoint(i, p, <<ofPointInDegrees(heap[i].origin, p)>>, p)

SpecArcs == InitArcsOnly /\ [][NextArcs]_vars

(* ----------------------- the comparison of two paths ------------------- *)

\* lines with their reversals and neighbours, and a path of each other variant
EqualPaths ==
    { Line(<<0, 0>>, <<2, 0>>), Line(<<2, 0>>, <<0, 0>>), Line(<<0, 0>>, <<2, 2>>),
      Line(<<2, 0>>, <<2, 2>>), Line(<<0, 0>>, <<0, 0>>),
      Circle(<<0, 0>>, 1), Arc(<<0, 0>>, 1, 0, 90), Bezier1(<<0, 0>>, <<1, 1>>, <<2, 0>>) }

InitEqual ==
    /\ heap \in { <<p, q>> : p \in EqualPaths, q \in EqualPaths }
    /\ last = [op |-> "init", target |-> 0, ret |-> 0, eq |-> "", pre |-> <<>>, arg |-> NoArg,
               failed |-> FALSE, prev |-> NoPrev]
    /\ steps = 0
    /\ mt = Idle
    /\ own = NoOwn

NextEqual ==
    \/ \E i \in Refs, j \in Refs : AreEqual(i, j)
    \/ \E i \in Refs, origin \in MovePoints : Move(i, origin)

SpecEqual == InitEqual /\ [][NextEqual]_vars

(* ------------------- breaks of every kind of path ---------------------- *)

\* a path of a type that the break engine has no function for
UnhandledPath == [type |-> "text", origin |-> <<0, 0>>, layer |-> <<>>]

InitBreak ==
    /\ heap \in { <<p>> : p \in InitPaths \cup {UnhandledPath} }
    /\ last = [op |-> "init", target |-> 0, ret |-> 0, eq |-> "", pre |-> <<>>, arg |-> NoArg,
               failed |-> FALSE, prev |-> NoPrev]
    /\ steps = 0
    /\ mt = Idle
    /\ own = NoOwn

NextBreak ==
    \E i \in Refs, a \in BreakArgs :
       \E splitPoint \in (IF heap[i].type = "bezier" THEN SplitPoints ELSE {a[1]}) :
          BreakAtPoint(i, a[1], a[2], splitPoint)

SpecBreak == InitBreak /\ [][NextBreak]_vars

(* ------------------- the options of the SVG exporter ------------------- *)

\* the rendering options that decide the scale and the origin of toSVG; <<>>
\* is a property that is not set
Options(optScale, optOrigin, optUnits, optViewBox) ==
    [scale |-> optScale, origin |-> optOrigin, units |-> optUnits, viewBox |-> optViewBox]

NoOptions == Options(<<>>, <<>>, <<>>, <<>>)

\* the properties of other that are set are copied to target
extendObject(target, other) ==
    [k \in DOMAIN target |-> IF other[k] # <<>> THEN other[k] ELSE target[k]]

\* the SVG unit and the scale conversion of a unit system, <<>> for none
svgUnit(units) ==
    CASE units = "inch" -> <<[svgUnitType |-> "in", scaleConversion |-> 1]>>
      [] units = "mm"   -> <<[svgUnitType |-> "mm", scaleConversion |-> 1]>>
      [] units = "cm"   -> <<[svgUnitType |-> "cm", scaleConversion |-> 1]>>
      [] units = "foot" -> <<[svgUnitType |-> "in", scaleConversion |-> 12]>>
      [] units = "m"    -> <<[svgUnitType |-> "cm", scaleConversion |-> 100]>>
      [] OTHER          -> <<>>

\* the low and the high corner of a line or a circle
modelExtents(item) ==
    IF item.type = "circle"
    THEN [low  |-> <<item.origin[1] - item.radius, item.origin[2] - item.radius>>,
          high |-> <<item.origin[1] + item.radius, item.origin[2] + item.radius>>]
    ELSE [low  |-> <<Min(item.origin[1], item.end[1]), Min(item.origin[2], item.end[2])>>,
          high |-> <<Max(item.origin[1], item.end[1]), Max(item.origin[2], item.end[2])>>]

\* toSVG on a path (a path has no unit system of its own): the options object
\* as the call leaves it, and the values the markup is made with, the scale
\* and the origin of the paths and the width, height and unit of the svg tag
toSVG(itemToExport, options) ==
    LET opts0 == extendObject(Options(<<1>>, <<>>, <<>>, <<TRUE>>), options)
        size == modelExtents(itemToExport)
        useSvgUnit == IF opts0.units = <<>> THEN <<>> ELSE svgUnit(opts0.units[1])
        scaled == IF useSvgUnit # <<>> /\ opts0.viewBox[1]
                  THEN opts0.scale[1] * useSvgUnit[1].scaleConversion
                  ELSE opts0.scale[1]
        left == IF size.low[1] < 0 THEN (-size.low[1]) * scaled ELSE 0
        origin == IF opts0.origin = <<>> THEN <<left, size.high[2] * scaled>>
                  ELSE opts0.origin[1]
        opts == [opts0 EXCEPT !.scale = <<scaled>>, !.origin = <<origin>>]
    IN  [options |-> extendObject(options, opts),
         svg |-> [scale |-> scaled, origin |-> origin,
                  width  |-> IF opts.viewBox[1]
                             THEN <<(size.high[1] - size.low[1]) * scaled>> ELSE <<>>,
                  height |-> IF opts.viewBox[1]
                             THEN <<(size.high[2] - size.low[2]) * scaled>> ELSE <<>>,
                  unit   |-> IF opts.viewBox[1] /\ useSvgUnit # <<>>
                             THEN useSvgUnit[1].svgUnitType ELSE ""]]

SvgItems == { Line(<<-1, 0>>, <<2, 1>>), Line(<<0, 0>>, <<2, 1>>), Circle(<<0, 0>>, 1) }

SvgOptions ==
    { Options(s, o, u, v) :
        s \in { <<>>, <<1>>, <<2>> },
        o \in { <<>>, << <<0, 0>> >> },
        u \in { <<>>, <<"inch">>, <<"mm">>, <<"cm">>, <<"foot">>, <<"m">> },
        v \in { <<>>, <<FALSE>> } }

\* object 1 is the item to export, object 2 the options object of the caller
InitSVG ==
    /\ heap \in { <<p, o>> : p \in SvgItems, o \in SvgOptions }
    /\ last = [op |-> "init", target |-> 0, ret |-> 0, eq |-> "", pre |-> <<>>, arg |-> NoArg,
               failed |-> FALSE, prev |-> NoPrev]
    /\ steps = 0
    /\ mt = Idle
    /\ own = NoOwn

\* toSVG(item, options): the options object receives the options of the call
ToSVG ==
    /\ steps < MaxSteps
    /\ LET r == toSVG(heap[1], heap[2])
       IN  /\ heap' = [heap EXCEPT ![2] = r.options]
           /\ last' = Did("toSVG", 1, r.svg, "", [NoArg EXCEPT !.other = 2])
    /\ steps' = steps + 1
    /\ UNCHANGED <<mt, own>>

\* toSVG(item): there is no object to write to
ToSVGNoOptions ==
    /\ steps < MaxSteps
    /\ last' = Did("toSVG", 1, toSVG(heap[1], NoOptions).svg, "", NoArg)
    /\ steps' = steps + 1
    /\ UNCHANGED <<heap, mt, own>>

NextSVG == ToSVG \/ ToSVGNoOptions

SpecSVG == InitSVG /\ [][NextSVG]_vars

(* ------------------------------- claims ------------------------------- *)

InPlaceOps == {"move", "moveRelative", "rotate", "scale", "breakAtPoint"}

\* the object the last call was given, as it was before the call
Before == last.pre[last.target]

\* the object the last call was given, as it is now
After == heap[last.target]

\* the last call was breakAtPoint on a path of this variant
BrokeA(type) == last.op = "breakAtPoint" /\ Before.type = type

\* C1: a clone is areEqual to its source, for every variant, and an in-place
\* operation on one object (a clone or its source) changes no other object.
C1_CloneEqualAndIndependent ==
    /\ (last.op = "clone" => areEqual(heap[last.target], heap[last.ret]) = "true")
    /\ (last.op \in InPlaceOps =>
          \A j \in DOMAIN last.pre : j # last.target => heap[j] = last.pre[j])

\* the total of the deltas that the list pairs with object j
RECURSIVE DeltaSum(_, _, _, _)
DeltaSum(pathsToMove, deltas, j, i) ==
    IF i > Len(pathsToMove) THEN <<0, 0>>
    ELSE LET rest == DeltaSum(pathsToMove, deltas, j, i + 1)
         IN  IF pathsToMove[i] = j /\ i <= Len(deltas) /\ deltas[i] # <<>>
             THEN <<rest[1] + deltas[i][1][1], rest[2] + deltas[i][1][2]>>
             ELSE rest

\* object j is in the list at an index that has a delta
HasDelta(j) ==
    \E i \in DOMAIN mt.paths : mt.paths[i] = j /\ i <= Len(mt.deltas) /\ mt.deltas[i] # <<>>

\* C2: when moveTemporary has returned, every field of every path is what it
\* was before the call (the task itself changes no path).
C2_MoveTemporaryRestores ==
    mt.pc = "done" => heap = mt.pre

\* C2 witness: a returned call whose list names one path twice, moved it, and
\* has no delta for its second entry.
C2_Witness ==
    /\ mt.pc = "done"
    /\ Len(mt.paths) = 2 /\ mt.paths[1] = mt.paths[2]
    /\ Len(mt.deltas) = 1 /\ mt.deltas[1] # <<>>

\* C3: however moveTemporary ends, by the task returning or by the task
\* throwing, no path is left displaced.
C3_ReleaseUnconditional ==
    mt.pc \in {"done", "thrown"} => heap = mt.pre

\* C4: the task is called once and with no arguments; while it runs, and until
\* it has finished, every path stands displaced by exactly the deltas paired
\* with it (none reversed), and a path with no delta is not moved at any point.
C4_TaskAfterApplyBeforeReverse ==
    /\ (mt.pc # "idle" => mt.taskCalls = 1 /\ mt.taskArgs = <<>>)
    /\ (mt.pc \in {"task", "thrown"} =>
          \A j \in DOMAIN heap :
             heap[j].origin = pointAdd(mt.pre[j].origin, DeltaSum(mt.paths, mt.deltas, j, 1), FALSE))
    /\ (mt.pc # "idle" => \A j \in DOMAIN heap : ~HasDelta(j) => heap[j] = mt.pre[j])

\* C4 witness: the task is running, the first path of the list has no delta and
\* the second, another object, has been moved.
C4_Witness ==
    /\ mt.pc = "task"
    /\ Len(mt.paths) = 2 /\ mt.paths[1] # mt.paths[2]
    /\ Len(mt.deltas) = 2 /\ mt.deltas[1] = <<>> /\ mt.deltas[2] # <<>>
    /\ heap[mt.paths[2]] # mt.pre[mt.paths[2]]

\* the point and the angle the last breakAtPoint was given
BreakPoint == last.arg.point[1]

GivenAngle == last.arg.angle

\* the break angle of the last breakAtPoint on an arc
BreakAngle == angleAtBreakPoint(Before, BreakPoint, GivenAngle)

\* the path the last call returned (when it returned one)
Returned == heap[last.ret]

\* p is on the segment from a to b, the two end points included
OnSegment(p, a, b) ==
    LET u == pointSubtract(b, a)
        v == pointSubtract(p, a)
        dot == u[1] * v[1] + u[2] * v[2]
    IN  /\ u[1] * v[2] - u[2] * v[1] = 0
        /\ 0 <= dot /\ dot <= u[1] * u[1] + u[2] * u[2]

\* p is on the straight line through a and b
OnCarrier(p, a, b) ==
    LET u == pointSubtract(b, a)
        v == pointSubtract(p, a)
    IN  u[1] * v[2] - u[2] * v[1] = 0

\* C5: a successful break of a Line at P leaves the source from its origin to
\* P and returns a new Line from P to the end the source had.
C5_LineBreakSplits ==
    (BrokeA("line") /\ last.ret # 0) =>
        /\ After.origin = Before.origin
        /\ After.end = BreakPoint
        /\ last.ret \notin DOMAIN last.pre
        /\ Returned.type = "line"
        /\ Returned.origin = BreakPoint
        /\ Returned.end = Before.end
        /\ Before.end # BreakPoint

\* C5 witness: a Line was broken and a second Line came back.
C5_Witness ==
    BrokeA("line") /\ last.ret # 0 /\ After.end # Before.end

C7_CircleBecomesFullArc ==
    BrokeA("circle") =>
        /\ last.ret = 0
        /\ Len(heap) = Len(last.pre)
        /\ After.type = "arc"
        /\ After.startAngle = ofPointInDegrees(Before.origin, BreakPoint)
        /\ After.endAngle = After.startAngle + 360
        /\ After.origin = Before.origin
        /\ After.radius = Before.radius

\* C7 witness: a Circle was broken at a point that is not on the zero ray.
C7_Witness ==
    BrokeA("circle") /\ After.type = "arc" /\ After.startAngle = 225

\* C8: a successful break of an Arc resolves the break angle to a value
\* strictly between startAngle and the end of the sweep; the source keeps
\* origin, radius and startAngle and ends at that value; the new Arc has the
\* same origin and radius, starts at that value and ends at the old endAngle.
C8_ArcBreakSplits ==
    (BrokeA("arc") /\ last.ret # 0) =>
        LET r == After.endAngle
        IN  /\ Before.startAngle < r /\ r < ofArcEnd(Before)
            /\ (r - BreakAngle) % 360 = 0
            /\ After = [Before EXCEPT !.endAngle = r]
            /\ last.ret \notin DOMAIN last.pre
            /\ Returned.type = "arc"
            /\ Returned.origin = Before.origin
            /\ Returned.radius = Before.radius
            /\ Returned.startAngle = r
            /\ Returned.endAngle = Before.endAngle

\* C8 witness: an Arc that does not start at a normalised angle was broken.
C8_Witness ==
    BrokeA("arc") /\ last.ret # 0 /\ Before.startAngle >= 360

\* the last call broke an arc through zero at an angle below its endAngle
BrokeWrapBelowEnd ==
    /\ BrokeA("arc")
    /\ 0 <= Before.endAngle /\ Before.endAngle < Before.startAngle /\ Before.startAngle < 360
    /\ 0 <= BreakAngle /\ BreakAngle < Before.endAngle

\* C9 as stated: an arc through zero broken at b, 0 <= b < endAngle, ends at b
\* itself and the returned arc goes from b to the old endAngle.
C9_WrapBreakAtB ==
    BrokeWrapBelowEnd =>
        /\ last.ret # 0
        /\ After.endAngle = BreakAngle
        /\ Returned.startAngle = BreakAngle
        /\ Returned.endAngle = Before.endAngle

\* C9 amended: an arc through zero (0 <= endAngle < startAngle < 360) broken at
\* b, 0 <= b < endAngle, ends at b + 360 and the returned arc goes from b + 360
\* to the old endAngle.
C9_WrapBreakAtBPlusTurn ==
    BrokeWrapBelowEnd =>
        /\ last.ret # 0
        /\ After.endAngle = BreakAngle + 360
        /\ After.startAngle = Before.startAngle
        /\ Returned.startAngle = BreakAngle + 360
        /\ Returned.endAngle = Before.endAngle

\* C9 witness: the arc from 350 to 10 was broken at 5.
C9_Witness ==
    /\ BrokeA("arc") /\ Before.startAngle = 350 /\ Before.endAngle = 10
    /\ BreakAngle = 5 /\ last.ret # 0 /\ After.endAngle = 365

\* some turn of the break angle is strictly inside the sweep of the arc
InsideSweep(arc, b) ==
    LET n == arc.startAngle % 360
        sweep == ofArcEnd(arc) - arc.startAngle
    IN  \E k \in {0, 1, -1} : n < b + 360 * k /\ b + 360 * k < n + sweep

\* the break angle is startAngle or endAngle, whole turns apart
AtArcEnd(arc, b) == (b - arc.startAngle) % 360 = 0 \/ (b - arc.endAngle) % 360 = 0

\* C10: a break of an Arc answers null when the break angle is its startAngle
\* or its endAngle, and when no one of the offsets 0, +360, -360 puts the angle
\* strictly inside the sweep; in every other case it answers an Arc.
C10_ArcBreakNullCases ==
    BrokeA("arc") =>
        /\ (last.ret = 0 <=> (AtArcEnd(Before, BreakAngle) \/ ~InsideSweep(Before, BreakAngle)))
        /\ (last.ret # 0 => Returned.type = "arc")

\* C10 witness: an Arc of non-zero sweep was broken at an angle that is neither
\* of its ends and lies outside its sweep, and null came back.
C10_Witness ==
    /\ BrokeA("arc")
    /\ last.ret = 0
    /\ ~AtArcEnd(Before, BreakAngle)
    /\ Before.endAngle # Before.startAngle

\* C11: whenever breakAtPoint returns a path, for every variant (Bezier
\* included), the returned path has the source's layer if the source has one,
\* and the layer of the source is what it was before the call.
C11_BreakResultCarriesLayer ==
    last.op = "breakAtPoint" /\ last.ret # 0 =>
        /\ (Before.layer # <<>> => Returned.layer = Before.layer)
        /\ After.layer = Before.layer

\* a layered Bezier curve was broken and the piece returned has its layer
C11_Witness ==
    /\ last.op = "breakAtPoint" /\ last.ret # 0
    /\ Before.layer = <<"cut">>
    /\ Before.type = "bezier"
    /\ Returned.layer = <<"cut">>

\* the last two calls were mirror(p, x, y) and then mirror of what that
\* returned, with the same flags
MirroredTwice ==
    /\ last.op = "mirror" /\ last.prev.op = "mirror"
    /\ last.target = last.prev.ret
    /\ last.arg.flag = last.prev.arg.flag /\ last.arg.flagY = last.prev.arg.flagY

\* the path that was mirrored first
MirroredFirst == heap[last.prev.target]

\* C12: mirroring any path twice on the same axis gives a path areEqual to
\* the original, for every variant, arcs through zero and full arcs included.
C12_DoubleMirrorRestores ==
    MirroredTwice /\ last.arg.flag /\ ~last.arg.flagY =>
        areEqual(MirroredFirst, Returned) = "true"

\* the same for every variant that areEqual compares (the curves are left out)
C12_DoubleMirrorRestoresCompared ==
    MirroredTwice /\ MirroredFirst.type # "bezier" =>
        areEqual(MirroredFirst, Returned) = "true"

\* the offset of a point from the origin of a path
Offset(path, p) == pointSubtract(p, path.origin)

\* the control points of a curve, as a list
ControlsOf(bez) == IF HasControl(bez) THEN <<bez.control>> ELSE bez.controls

\* C13: after move(p, newOrigin) the origin of p is newOrigin; for a Line or a
\* Bezier the end and every control point are as far from the origin as they
\* were before the call; for a Circle or an Arc only the origin has changed.
C13_MoveKeepsOffsets ==
    last.op = "move" =>
        /\ After.origin = last.arg.point[1]
        /\ (Before.type \in {"line", "bezier"} =>
               Offset(After, After.end) = Offset(Before, Before.end))
        /\ (Before.type = "bezier" =>
               /\ Len(ControlsOf(After)) = Len(ControlsOf(Before))
               /\ \A k \in DOMAIN ControlsOf(Before) :
                     Offset(After, ControlsOf(After)[k]) = Offset(Before, ControlsOf(Before)[k]))
        /\ (Before.type \in {"circle", "arc"} =>
               After = [Before EXCEPT !.origin = last.arg.point[1]])

\* a curve with a list of control points was moved to another origin
C13_Witness ==
    /\ last.op = "move"
    /\ Before.type = "bezier" /\ ~HasControl(Before)
    /\ After.origin # Before.origin
    /\ After.controls # Before.controls

\* C14: rotate(p, 0, anyCenter) and scale(p, 1) return the object they were
\* given with no field changed, for every variant; an arc whose endAngle is
\* outside [0, 360) keeps its angles under a rotation by zero.
C14_IdentityTransforms ==
    (\/ (last.op = "rotate" /\ last.arg.num = 0)
     \/ (last.op = "scale" /\ last.arg.num = 1))
    => (last.ret = last.target /\ After = Before)

\* the arc left by breaking a circle, whose endAngle is 360 or more, was
\* rotated by zero
C14_Witness ==
    /\ last.op = "rotate" /\ last.arg.num = 0
    /\ Before.type = "arc" /\ Before.endAngle >= 360
    /\ After.endAngle = Before.endAngle

\* the calls that return a new path made from their argument
NewPathOps == {"clone", "mirror", "breakAtPoint"}

\* C15: every operation that makes a new path from a source path (clone,
\* mirror, breakAtPoint) gives the new path the layer of the source when the
\* source has one, and no in-place operation (the source side of
\* breakAtPoint included) changes the layer of a path.
C15_LayerCarried ==
    /\ (last.op \in NewPathOps /\ last.ret # 0 /\ Before.layer # <<>> =>
           Returned.layer = Before.layer)
    /\ (last.op \in InPlaceOps => After.layer = Before.layer)

\* C16: mirror and clone leave their argument untouched, and fixPath (mirror,
\* then scale, then moveRelative on the mirrored copy) changes no field of the
\* path it is given and returns a path, not null, for every variant.
C16_CopiesLeaveSource ==
    last.op \in {"clone", "mirror", "fixPath"} =>
        /\ \A j \in DOMAIN last.pre : heap[j] = last.pre[j]
        /\ last.ret # 0 /\ last.ret \notin DOMAIN last.pre

\* fixPath was given a curve and returned a scaled and moved mirror image of
\* it, while the curve is as it was
C16_Witness ==
    /\ last.op = "fixPath" /\ Before.type = "bezier"
    /\ last.arg.num = 2 /\ last.arg.point = << <<1, 2>> >>
    /\ Returned.end # Before.end
    /\ After = Before

\* curve b has its control points in the form and number that curve a has:
\* a single control and no controls list, or a controls list as long as a's
\* and no single control
SameControlForm(a, b) ==
    IF HasControl(a)
    THEN "control" \in DOMAIN b /\ "controls" \notin DOMAIN b
    ELSE /\ "controls" \in DOMAIN b /\ "control" \notin DOMAIN b
         /\ Len(b.controls) = Len(a.controls)

\* C17: across clone, mirror, move, moveRelative, rotate and scale a Bezier
\* with a single control point still has a single control point and no
\* controls list, and a Bezier with a controls list of n points still has a
\* controls list of n points and no single control.
C17_ControlFormKept ==
    /\ last.op \in {"clone", "mirror", "move", "moveRelative", "rotate", "scale"}
    /\ Before.type = "bezier" /\ last.ret # 0
    => SameControlForm(Before, Returned)

\* the same without mirror
C17_ControlFormKeptButMirror ==
    /\ last.op \in {"clone", "move", "moveRelative", "rotate", "scale"}
    /\ Before.type = "bezier" /\ last.ret # 0
    => SameControlForm(Before, Returned)

\* all the points of a curve: origin, control points, end
PointsOf(bez) == <<bez.origin>> \o ControlsOf(bez) \o <<bez.end>>

\* the map of the plane that the last call stands for
LastMap(p) ==
    CASE last.op = "mirror" -> pointMirror(p, last.arg.flag, last.arg.flagY)
      [] last.op = "move" -> pointAdd(p, pointSubtract(last.arg.point[1], Before.origin), FALSE)
      [] last.op = "moveRelative" -> pointAdd(p, last.arg.point[1], last.arg.flag)
      [] last.op = "rotate" -> pointRotate(p, last.arg.num, last.arg.point[1])
      [] last.op = "scale" -> pointScale(p, last.arg.num)

\* C18: every transformation handles the Bezier variant: mirror, move,
\* moveRelative, rotate and scale applied to a Bezier transform its origin,
\* its end and every control point by the same map, and mirror and clone
\* never return null for a Bezier.
C18_BezierHandled ==
    last.op \in {"clone", "mirror", "move", "moveRelative", "rotate", "scale"}
    /\ Before.type = "bezier" =>
        /\ (last.op \in {"mirror", "clone"} => last.ret # 0)
        /\ (last.op \in {"mirror", "move", "moveRelative", "rotate", "scale"} /\ last.ret # 0 =>
               PointsOf(Returned) = [k \in DOMAIN PointsOf(Before) |-> LastMap(PointsOf(Before)[k])])

\* the last call was given null for a path, or no delta, or no break point
NullCall ==
    \/ last.op \in EngineOps \cup {"areEqual"} /\ last.target = 0
    \/ last.op \in {"moveRelative", "breakAtPoint"} /\ last.target # 0 /\ last.arg.point = <<>>

\* C19: called with a null or absent path (or, for moveRelative, an absent
\* delta; for breakAtPoint, an absent break point), every operation of the
\* engine returns its input unchanged or null and does not fail.
C19_NullArgumentsSafe ==
    NullCall =>
        /\ ~last.failed
        /\ heap = last.pre
        /\ last.ret \in {0, last.target}

\* the same for the operations that test their path argument
C19_GuardedNullArgumentsSafe ==
    NullCall /\ last.op \notin {"clone", "areEqual"} =>
        /\ ~last.failed
        /\ heap = last.pre
        /\ last.ret \in {0, last.target}

\* the point objects of path object j
PointsOwned(j) == { own.of[j][f] : f \in DOMAIN own.of[j] }

\* the point objects of the path objects other than j
PointsOfOthers(j) == UNION { PointsOwned(k) : k \in DOMAIN own.of \ {j} }

\* C20: a path returned by breakAtPoint, clone or mirror shares no point
\* object (origin, end, control) with the source path, with another path or
\* with a point the caller supplied, and move does not leave the origin of
\* the path the same object as a point of another path.
C20_NoSharedPoints ==
    /\ (last.op \in NewPathOps /\ last.ret # 0 =>
           PointsOwned(last.ret) \cap (PointsOfOthers(last.ret) \cup {own.arg}) = {})
    /\ (last.op = "move" =>
           own.of[last.target].origin \notin PointsOfOthers(last.target))

\* the same for clone and mirror alone
C20_CopiesShareNoPoints ==
    last.op \in {"clone", "mirror"} =>
        PointsOwned(last.ret) \cap PointsOfOthers(last.ret) = {}

\* C21: isPathArc accepts every object that has the required properties of an
\* arc (type arc, an origin, a radius, a startAngle and an endAngle), the arcs
\* whose startAngle is 0 and the arcs whose endAngle is 0 included.
C21_IsPathArcAcceptsArcs ==
    last.op = "isPathArc" /\ After.type = "arc" /\ After.radius > 0 => last.eq = "true"

\* the same for the arcs neither of whose angles is zero
C21_IsPathArcAcceptsNonZeroAngles ==
    last.op = "isPathArc" /\ After.type = "arc" /\ After.radius > 0
    /\ After.startAngle # 0 /\ After.endAngle # 0 => last.eq = "true"

\* C22: after rotate(arc, degrees, center) with degrees other than 0, both
\* startAngle and endAngle of the arc are in [0, 360), each the old angle plus
\* degrees reduced modulo 360 on its own; Arc{startAngle 0, endAngle 90}
\* rotated by 90 about its origin has startAngle 90 and endAngle 180.
C22_RotateNormalisesAngles ==
    last.op = "rotate" /\ Before.type = "arc" /\ last.arg.num # 0 =>
        /\ After.startAngle \in 0..359 /\ After.endAngle \in 0..359
        /\ (After.startAngle - Before.startAngle - last.arg.num) % 360 = 0
        /\ (After.endAngle - Before.endAngle - last.arg.num) % 360 = 0
        /\ (Before = Arc(<<0, 0>>, 1, 0, 90) /\ last.arg.num = 90 /\ last.arg.point = << <<0, 0>> >>
              => After = Arc(<<0, 0>>, 1, 90, 180))

\* the arc from 0 to 90 was rotated by 90 about its origin
C22_Witness ==
    /\ last.op = "rotate" /\ last.arg.num = 90 /\ last.arg.point = << <<0, 0>> >>
    /\ Before = Arc(<<0, 0>>, 1, 0, 90)
    /\ After.startAngle = 90 /\ After.endAngle = 180

\* the counter-clockwise sweep of an arc
Sweep(arc) == ofArcEnd(arc) - arc.startAngle

\* the angles the claim gives the mirror image of an arc
MirroredAngles(arc, mirrorX, mirrorY) ==
    IF mirrorX # mirrorY
    THEN <<angleMirror(ofArcEnd(arc), mirrorX, mirrorY), angleMirror(arc.startAngle, mirrorX, mirrorY)>>
    ELSE <<angleMirror(arc.startAngle, mirrorX, mirrorY), angleMirror(ofArcEnd(arc), mirrorX, mirrorY)>>

\* the last call mirrored an arc
MirroredAnArc == last.op = "mirror" /\ Before.type = "arc"

\* the mirror image has the origin, radius and angles that the claim gives it
MirrorOfArcAsStated ==
    /\ Returned.type = "arc"
    /\ Returned.origin = pointMirror(Before.origin, last.arg.flag, last.arg.flagY)
    /\ Returned.radius = Before.radius
    /\ <<Returned.startAngle, Returned.endAngle>> =
          MirroredAngles(Before, last.arg.flag, last.arg.flagY)

C23_MirrorPartArcKeepsSweep ==
    MirroredAnArc /\ Sweep(Before) < 360 => MirrorOfArcAsStated /\ Sweep(Returned) = Sweep(Before)

\* the last call broke an arc or a circle and was given the polar angle of
\* the break point as angleOfBreak
BrokeWithPolarAngle ==
    /\ last.op = "breakAtPoint" /\ Before.type \in {"arc", "circle"}
    /\ GivenAngle # <<>>
    /\ IsCompass(Before.origin, BreakPoint)
    /\ GivenAngle[1] = ofPointInDegrees(Before.origin, BreakPoint)

\* what the same call without angleOfBreak leaves and returns
BrokenWithoutAngle == breakAtPoint(Before, <<BreakPoint>>, <<>>, BreakPoint)

\* C24: a precomputed break angle is only an optimization: for every Arc and
\* Circle and every break point, the path returned and the source left are
\* the same whether angleOfBreak is passed (the polar angle of the point, the
\* value 0 included) or omitted.
C24_BreakAngleIsOptimization ==
    BrokeWithPolarAngle =>
        /\ After = BrokenWithoutAngle.source
        /\ (last.ret = 0) = (BrokenWithoutAngle.result = <<>>)
        /\ (last.ret # 0 => Returned = BrokenWithoutAngle.result[1])

\* an arc was broken in two with the polar angle of the point passed to it
C24_Witness ==
    /\ BrokeWithPolarAngle /\ Before.type = "arc"
    /\ last.ret # 0
    /\ GivenAngle[1] \notin {0, 180}

\* the second path of the last comparison
Other == heap[last.arg.other]

\* the two lines have the same two ends, in the same or in the other order
SameEnds(a, b) ==
    \/ a.origin = b.origin /\ a.end = b.end
    \/ a.origin = b.end /\ a.end = b.origin

\* C25: areEqual returns false whenever the two paths have different variant
\* tags; for two Lines it is true exactly when origin matches origin and end
\* matches end, or origin matches the other's end and end the other's origin,
\* so areEqual(a, b) equals areEqual(b, a) and a line equals its reversal.
C25_AreEqualLinesUndirected ==
    last.op = "areEqual" =>
        /\ (After.type # Other.type => last.eq = "false")
        /\ (After.type = "line" /\ Other.type = "line" =>
              /\ last.eq = Bool(SameEnds(After, Other))
              /\ areEqual(Other, After) = last.eq
              /\ (Other = Line(After.end, After.origin) => last.eq = "true"))

\* a line of non-zero length was compared with its reversal
C25_Witness ==
    /\ last.op = "areEqual"
    /\ After.type = "line" /\ After.origin # After.end
    /\ Other = Line(After.end, After.origin)
    /\ last.eq = "true"

\* C26: when breakAtPoint returns null for a Line or an Arc (break point not
\* on the path, or break angle at an end of the arc), or for a path whose type
\* has no break function, no field of the source path has changed.
C26_NullBreakLeavesSource ==
    last.op = "breakAtPoint" /\ last.ret = 0 /\ Before.type \notin {"circle", "bezier"} =>
        After = Before

\* an arc was given a break point outside its sweep and null came back
C26_Witness ==
    /\ BrokeA("arc") /\ last.ret = 0
    /\ ~AtArcEnd(Before, BreakAngle)
    /\ Before.endAngle # Before.startAngle
    /\ After = Before

\* a path of a type without a break function was given to breakAtPoint
C26_UnhandledReached ==
    last.op = "breakAtPoint" /\ last.ret = 0 /\ Before.type = "text"

\* the sweeps of the arcs of a heap, from object i on, added up
RECURSIVE TotalSweep(_, _)
TotalSweep(h, i) ==
    IF i > Len(h) THEN 0
    ELSE (IF h[i].type = "arc" THEN Sweep(h[i]) ELSE 0) + TotalSweep(h, i + 1)

\* the last call broke an arc in two
BrokeArcInTwo == BrokeA("arc") /\ last.ret # 0

\* C27: after any sequence of successful breakAtPoint calls on an arc and on
\* the pieces it returns, every piece has a positive sweep, the end-of-arc
\* direction of each piece is the start direction of the next modulo 360, and
\* the sweeps of the pieces add up to the sweep of the original arc.  Stated
\* for one more break of a sequence: the pieces were positive and are, the
\* piece left runs from the old start to the start of the piece returned,
\* which ends where the broken piece ended, and the total has not changed.
C27_BreaksKeepSweeps ==
    BrokeArcInTwo =>
        /\ \A j \in DOMAIN heap : heap[j].type = "arc" => Sweep(heap[j]) > 0
        /\ After.startAngle = Before.startAngle
        /\ (ofArcEnd(After) - Returned.startAngle) % 360 = 0
        /\ (ofArcEnd(Returned) - ofArcEnd(Before)) % 360 = 0
        /\ TotalSweep(heap, 1) = TotalSweep(last.pre, 1)

\* a piece that a break returned was broken in two itself
C27_Witness ==
    /\ BrokeArcInTwo
    /\ last.prev.op = "breakAtPoint" /\ last.prev.ret # 0
    /\ last.target = last.prev.ret
    /\ Len(heap) = 3

\* p is on the circle that the arc is a part of
OnCircle(arc, p) ==
    LET d == pointSubtract(p, arc.origin)
    IN  d[1] * d[1] + d[2] * d[2] = arc.radius * arc.radius

\* the point of the call before the last
FirstBreakPoint == last.prev.arg.point[1]

\* the last call is a break, at a point of the circle and with no angle, of
\* the full-sweep arc of an opened circle; the call before, at a point of the
\* circle, returned null: it is the break that opened the circle, or one at
\* the same point again
BrokeOpenedCircle ==
    /\ BrokeA("arc")
    /\ last.prev.op = "breakAtPoint" /\ last.prev.target = last.target /\ last.prev.ret = 0
    /\ last.prev.arg.point # <<>> /\ last.arg.point # <<>>
    /\ Before.endAngle = Before.startAngle + 360
    /\ OnCircle(Before, FirstBreakPoint) /\ OnCircle(Before, BreakPoint)
    /\ ~Truthy(GivenAngle)

\* C28: after breakAtPoint at P has made a circle a full-sweep arc, a second
\* breakAtPoint on the same object at another point Q of the circle returns
\* an arc, a second break at P returns null, and the two arcs of the first
\* case have the origin and the radius of the circle and sweeps that add up
\* to 360.
C28_SecondBreakOfCircle ==
    BrokeOpenedCircle =>
        IF BreakPoint = FirstBreakPoint
        THEN last.ret = 0 /\ After = Before
        ELSE /\ last.ret # 0
             /\ After.type = "arc" /\ Returned.type = "arc"
             /\ After.origin = Before.origin /\ Returned.origin = Before.origin
             /\ After.radius = Before.radius /\ Returned.radius = Before.radius
             /\ Sweep(After) + Sweep(Returned) = 360

\* a circle opened at 180 degrees, its arc from 180 to 540, is broken at
\* another point of the circle
C28_Witness ==
    BrokeOpenedCircle /\ BreakPoint # FirstBreakPoint /\ Before.startAngle = 180 /\ last.ret # 0

\* the second break is at the point of the first
C28_SamePointReached == BrokeOpenedCircle /\ BreakPoint = FirstBreakPoint /\ last.ret = 0

\* the last call was rotate on an arc
RotatedAnArc == last.op = "rotate" /\ Before.type = "arc"

C29_RotatePartArcKeepsSweep ==
    (RotatedAnArc /\ Sweep(Before) < 360) => Sweep(After) = Sweep(Before)

\* an arc of less than a whole turn that a break returned has been rotated
C29_PartArcRotated ==
    /\ RotatedAnArc /\ Sweep(Before) < 360 /\ Sweep(Before) > 0
    /\ last.prev.op = "breakAtPoint" /\ last.prev.ret = last.target
    /\ last.arg.angle # <<0>>

\* the last two calls are toSVG with the same item and the same options object
ToSVGAgain ==
    /\ last.op = "toSVG" /\ last.prev.op = "toSVG"
    /\ last.arg.other = 2 /\ last.prev.arg.other = 2

\* the scale conversion of the unit system that the exporter applies
ConversionOf(options) ==
    IF options.units = <<>> \/ options.viewBox = <<FALSE>> THEN 1
    ELSE svgUnit(options.units[1])[1].scaleConversion

\* C30: toSVG called again with the same item and the same options object
\* uses the same scale and the same origin: the values the call before wrote
\* to the options object do not change the result, for every unit system,
\* foot and meter included.
C30_ToSVGAgainSameResult ==
    ToSVGAgain =>
        /\ last.ret.scale = last.prev.ret.scale
        /\ last.ret.origin = last.prev.ret.origin

\* C30, for the options with which the scale is not converted (no unit system,
\* inch, millimeter, centimeter, or no viewBox): the result is the same.
C30_ToSVGAgainSameUnconverted ==
    (ToSVGAgain /\ ConversionOf(heap[2]) = 1) => last.ret = last.prev.ret

\* C30, the origin alone: it is the same in every call.
C30_ToSVGAgainSameOrigin == ToSVGAgain => last.ret.origin = last.prev.ret.origin

\* toSVG has been called twice with options of a unit system that needs no
\* conversion, and an origin and a scale that the first call wrote
C30_UnconvertedReached ==
    /\ ToSVGAgain /\ heap[2].units = <<"cm">> /\ heap[2].viewBox = <<TRUE>>
    /\ last.ret.scale = 2 /\ last.ret.origin = <<2, 2>>

====
